---- MODULE Spec2Model ----
(***************************************************************************)
(* Model of GA_2_5/api/index.py: a FastAPI service that loads a static     *)
(* telemetry dataset once at import time (load_telemetry_data) and serves  *)
(* POST /api/latency (get_region_metrics), which aggregates per-region     *)
(* latency and uptime statistics.                                          *)
(*                                                                         *)
(* Numbers.  A JSON number and every Python float derived from it is       *)
(* modelled as an exact rational [num, den] in lowest terms; round(x, n)   *)
(* is round-to-nearest, ties to even, on that exact value.  Binary         *)
(* representation error of floats is not modelled; NoTie below records     *)
(* that no value rounded in the explored datasets lies on a tie, where     *)
(* the binary representation would decide the direction.                   *)
(***************************************************************************)
EXTENDS Integers, Sequences, FiniteSets, TLC

VARIABLES
    fs,              \* the deployment's files: file id -> file state
    pc,              \* "boot", then "serving" / "responding" (or "crashed")
    telemetry_data,  \* the module-level list of line 71
    request,         \* the RegionRequest being served
    response         \* the response being returned

vars == <<fs, pc, telemetry_data, request, response>>

(***************************************************************************)
(* Bounds of the explored inputs.                                          *)
(***************************************************************************)
MaxRecords == 3      \* longest dataset explored
MaxRegions == 2      \* longest request.regions explored

(***************************************************************************)
(* Exact rationals.                                                        *)
(***************************************************************************)
RECURSIVE GCD(_, _)
GCD(a, b) == IF b = 0 THEN a ELSE GCD(b, a % b)

Abs(a) == IF a < 0 THEN -a ELSE a

Rat(n, d) ==
    LET g == GCD(Abs(n), d)
    IN  [num |-> n \div g, den |-> d \div g]

LCM(a, b) == (a \div GCD(a, b)) * b

\* a.num and b.num over the common denominator LCM(a.den, b.den).
OnLCM(a, b) ==
    LET l == LCM(a.den, b.den)
    IN  [a |-> a.num * (l \div a.den), b |-> b.num * (l \div b.den), den |-> l]

RatAdd(a, b) == LET c == OnLCM(a, b) IN Rat(c.a + c.b, c.den)
RatSub(a, b) == LET c == OnLCM(a, b) IN Rat(c.a - c.b, c.den)
RatMul(a, b) ==
    LET g == GCD(Abs(a.num), b.den)
        h == GCD(Abs(b.num), a.den)
    IN  Rat((a.num \div g) * (b.num \div h), (a.den \div h) * (b.den \div g))
RatLess(a, b) == a.num * b.den < b.num * a.den
RatLeq(a, b) == a.num * b.den <= b.num * a.den
Int2Rat(i) == [num |-> i, den |-> 1]

RECURSIVE Pow10(_)
Pow10(n) == IF n = 0 THEN 1 ELSE 10 * Pow10(n - 1)

\* Python's round(x, ndigits): nearest multiple of 10^-ndigits, ties to even.
round(x, ndigits) ==
    LET scale == Pow10(ndigits)
        n == x.num * scale
        q == n \div x.den
        r == n % x.den
        k == IF 2 * r < x.den THEN q
             ELSE IF 2 * r > x.den THEN q + 1
             ELSE IF q % 2 = 0 THEN q ELSE q + 1
    IN  Rat(k, scale)

\* x lies exactly half way between two multiples of 10^-ndigits.
IsTie(x, ndigits) == 2 * ((x.num * Pow10(ndigits)) % x.den) = x.den

\* Python's int(x) for x >= 0 (truncation).
int(x) == x.num \div x.den

RECURSIVE RatSum(_)
RatSum(xs) == IF xs = <<>> THEN Int2Rat(0) ELSE RatAdd(Head(xs), RatSum(Tail(xs)))

\* statistics.mean(xs), xs non-empty.
mean(xs) == LET s == RatSum(xs) IN Rat(s.num, s.den * Len(xs))

\* sorted(data): ascending.
RECURSIVE Insert(_, _)
Insert(x, s) ==
    IF s = <<>> THEN <<x>>
    ELSE IF RatLeq(x, Head(s)) THEN <<x>> \o s
    ELSE <<Head(s)>> \o Insert(x, Tail(s))

RECURSIVE sorted(_)
sorted(data) == IF data = <<>> THEN <<>> ELSE Insert(Head(data), sorted(Tail(data)))

(***************************************************************************)
(* calculate_percentile (lines 55-67).  Python lists are 0-based, TLA+     *)
(* sequences 1-based: sorted_data[k] of the source is sorted_data[k + 1].  *)
(***************************************************************************)
\* Mutant: the data is not sorted before the order statistics are read.
calculate_percentile_unsorted(data, percentile) ==
    IF data = <<>> THEN Int2Rat(0)
    ELSE LET sorted_data == data
             index == RatMul(Int2Rat(Len(sorted_data) - 1), percentile)
             lower == int(index)
             upper == lower + 1
             weight == RatSub(index, Int2Rat(lower))
         IN  IF upper >= Len(sorted_data) THEN sorted_data[lower + 1]
             ELSE RatAdd(RatMul(sorted_data[lower + 1], RatSub(Int2Rat(1), weight)),
                         RatMul(sorted_data[upper + 1], weight))

\* Mutant: the lower order statistic is not scaled by (1 - weight).
calculate_percentile_noweight(data, percentile) ==
    IF data = <<>> THEN Int2Rat(0)
    ELSE LET sorted_data == sorted(data)
             index == RatMul(Int2Rat(Len(sorted_data) - 1), percentile)
             lower == int(index)
             upper == lower + 1
             weight == RatSub(index, Int2Rat(lower))
         IN  IF upper >= Len(sorted_data) THEN sorted_data[lower + 1]
             ELSE RatAdd(sorted_data[lower + 1],
                         RatMul(sorted_data[upper + 1], weight))

\* Mutant: the guard of line 57 also rejects a single-element list.
calculate_percentile_short(data, percentile) ==
    IF Len(data) < 2 THEN Int2Rat(0)
    ELSE LET sorted_data == sorted(data)
             index == RatMul(Int2Rat(Len(sorted_data) - 1), percentile)
             lower == int(index)
             upper == lower + 1
             weight == RatSub(index, Int2Rat(lower))
         IN  IF upper >= Len(sorted_data) THEN sorted_data[lower + 1]
             ELSE RatAdd(RatMul(sorted_data[lower + 1], RatSub(Int2Rat(1), weight)),
                         RatMul(sorted_data[upper + 1], weight))

calculate_percentile(data, percentile) ==
    IF data = <<>> THEN Int2Rat(0)
    ELSE LET sorted_data == sorted(data)
             index == RatMul(Int2Rat(Len(sorted_data) - 1), percentile)
             lower == int(index)
             upper == lower + 1
             weight == RatSub(index, Int2Rat(lower))
         IN  IF upper >= Len(sorted_data) THEN sorted_data[lower + 1]
             ELSE RatAdd(RatMul(sorted_data[lower + 1], RatSub(Int2Rat(1), weight)),
                         RatMul(sorted_data[upper + 1], weight))

(***************************************************************************)
(* The dataset.  A record is a JSON object; a well-formed one has the      *)
(* fields region, latency_ms and uptime_pct, a malformed one lacks one.    *)
(***************************************************************************)
Sample(region, latency_ms, uptime_pct) ==
    [region |-> region, latency_ms |-> latency_ms, uptime_pct |-> uptime_pct]

WellFormedRecords ==
    { Sample("emea", Int2Rat(100), Int2Rat(99)),
      Sample("emea", Int2Rat(200), Int2Rat(98)),
      Sample("emea", Rat(100004, 1000), Int2Rat(99)),
      Sample("apac", Int2Rat(150), Int2Rat(98)) }

MalformedRecords ==
    { [latency_ms |-> Int2Rat(100), uptime_pct |-> Int2Rat(99)],
      [region |-> "emea", uptime_pct |-> Int2Rat(99)],
      [region |-> "emea", latency_ms |-> Int2Rat(100)] }

SeqsUpTo(S, n) == UNION { [1..k -> S] : k \in 0..n }

InsertAt(s, i, x) == SubSeq(s, 1, i) \o <<x>> \o SubSeq(s, i + 1, Len(s))

\* The lists json.load may return: up to MaxRecords records, at most one of
\* them malformed, at any position.
Datasets ==
    SeqsUpTo(WellFormedRecords, MaxRecords)
    \cup UNION { { InsertAt(s, i, bad) : i \in 0..Len(s), bad \in MalformedRecords } :
                  s \in SeqsUpTo(WellFormedRecords, MaxRecords - 1) }

IsWellFormed(record) == DOMAIN record = {"region", "latency_ms", "uptime_pct"}

(***************************************************************************)
(* load_telemetry_data (lines 28-52).  The first two candidate paths are   *)
(* relative to the working directory and name the same file.               *)
(***************************************************************************)
possible_paths == <<"cwd", "cwd", "var_task", "parent">>

FileIds == {"cwd", "var_task", "parent"}

Absent == [exists |-> FALSE, parses |-> FALSE, data |-> <<>>]
Corrupt == [exists |-> TRUE, parses |-> FALSE, data |-> <<>>]
JsonFile(data) == [exists |-> TRUE, parses |-> TRUE, data |-> data]

\* The loop of lines 39-48: what the try block returns, or that it raised.
RECURSIVE ScanPaths(_, _)
ScanPaths(files, i) ==
    IF i > Len(possible_paths) THEN [raised |-> FALSE, data |-> <<>>]
    ELSE LET data_path == files[possible_paths[i]]
         IN  IF data_path.exists
             THEN IF data_path.parses
                  THEN [raised |-> FALSE, data |-> data_path.data]
                  ELSE [raised |-> TRUE, data |-> <<>>]
             ELSE ScanPaths(files, i + 1)

\* Mutant: no except clause, a failed read or parse propagates.
load_telemetry_data_noexcept(files) == ScanPaths(files, 1)

\* The whole function: the except clause of lines 50-52 turns a raise into [].
load_telemetry_data(files) ==
    LET tried == ScanPaths(files, 1)
    IN  IF tried.raised THEN [raised |-> FALSE, data |-> <<>>] ELSE tried

(***************************************************************************)
(* get_region_metrics (lines 75-129).                                      *)
(***************************************************************************)
RegionNames == {"emea", "apac", "unknown_region"}

Thresholds == {-1, 150, 1000000}

Requests ==
    { [regions |-> rs, threshold_ms |-> t] :
        rs \in SeqsUpTo(RegionNames, MaxRegions), t \in Thresholds }

NoResults == [region \in {} |-> 0]

\* results[region] = metrics (a dict assignment: the key is added or overwritten).
SetItem(results, region, metrics) ==
    [r \in DOMAIN results \cup {region} |->
        IF r = region THEN metrics ELSE results[r]]

\* Lines 84-89: region_data, or the key whose lookup raised KeyError.
RECURSIVE GroupByRegion(_, _, _)
GroupByRegion(data, i, region_data) ==
    IF i > Len(data) THEN [raised |-> "", region_data |-> region_data]
    ELSE LET record == data[i]
         IN  IF "region" \notin DOMAIN record
             THEN [raised |-> "region", region_data |-> region_data]
             ELSE LET region == record.region
                      listed == IF region \notin DOMAIN region_data
                                THEN SetItem(region_data, region, <<>>)
                                ELSE region_data
                  IN  GroupByRegion(data, i + 1,
                          [listed EXCEPT ![region] = Append(@, record)])

\* Mutant: the comparison of line 112 is >= instead of >.
RECURSIVE CountBreaches_geq(_, _)
CountBreaches_geq(latencies, threshold_ms) ==
    IF latencies = <<>> THEN 0
    ELSE (IF RatLeq(Int2Rat(threshold_ms), Head(latencies)) THEN 1 ELSE 0)
         + CountBreaches_geq(Tail(latencies), threshold_ms)

\* Line 112: sum(1 for latency in latencies if latency > threshold_ms).
RECURSIVE CountBreaches(_, _)
CountBreaches(latencies, threshold_ms) ==
    IF latencies = <<>> THEN 0
    ELSE (IF RatLess(Int2Rat(threshold_ms), Head(latencies)) THEN 1 ELSE 0)
         + CountBreaches(Tail(latencies), threshold_ms)

ZeroMetrics ==
    [avg_latency |-> Int2Rat(0), p95_latency |-> Int2Rat(0),
     avg_uptime |-> Int2Rat(0), breaches |-> 0]

\* Mutant: uptime_pct is averaged on its 0-100 scale (no division by 100).
RegionMetrics_percent(records, threshold_ms) ==
    LET latencies == [k \in 1..Len(records) |-> records[k].latency_ms]
        uptimes == [k \in 1..Len(records) |-> records[k].uptime_pct]
    IN  [avg_latency |-> round(IF latencies # <<>> THEN mean(latencies)
                               ELSE Int2Rat(0), 2),
         p95_latency |-> round(calculate_percentile(latencies, Rat(95, 100)), 2),
         avg_uptime |-> round(IF uptimes # <<>> THEN mean(uptimes)
                              ELSE Int2Rat(0), 4),
         breaches |-> CountBreaches(latencies, threshold_ms)]

\* Lines 102-119 for one region present in region_data; records is never empty.
RegionMetrics(records, threshold_ms) ==
    LET latencies == [k \in 1..Len(records) |-> records[k].latency_ms]
        uptimes == [k \in 1..Len(records) |->
                       RatMul(records[k].uptime_pct, Rat(1, 100))]
    IN  [avg_latency |-> round(IF latencies # <<>> THEN mean(latencies)
                               ELSE Int2Rat(0), 2),
         p95_latency |-> round(calculate_percentile(latencies, Rat(95, 100)), 2),
         avg_uptime |-> round(IF uptimes # <<>> THEN mean(uptimes)
                              ELSE Int2Rat(0), 4),
         breaches |-> CountBreaches(latencies, threshold_ms)]

\* The key whose lookup raises KeyError in the comprehensions of lines 103-106
\* ("" when none does): all of latency_ms is read before any uptime_pct.
MissingField(records) ==
    IF \E k \in 1..Len(records) : "latency_ms" \notin DOMAIN records[k]
    THEN "latency_ms"
    ELSE IF \E k \in 1..Len(records) : "uptime_pct" \notin DOMAIN records[k]
    THEN "uptime_pct"
    ELSE ""

\* Mutant: an unknown region is an error naming it instead of zeros.
RECURSIVE RegionLoop_notfound(_, _, _, _, _)
RegionLoop_notfound(region_data, regions, threshold_ms, i, results) ==
    IF i > Len(regions) THEN [raised |-> "", results |-> results]
    ELSE LET region == regions[i]
         IN  IF region \notin DOMAIN region_data
             THEN [raised |-> region, results |-> results]
             ELSE LET records == region_data[region]
                  IN  IF MissingField(records) # ""
                      THEN [raised |-> MissingField(records), results |-> results]
                      ELSE RegionLoop_notfound(region_data, regions, threshold_ms, i + 1,
                               SetItem(results, region,
                                       RegionMetrics(records, threshold_ms)))

\* Mutant: an unknown region is skipped without an entry in results.
RECURSIVE RegionLoop_skip(_, _, _, _, _)
RegionLoop_skip(region_data, regions, threshold_ms, i, results) ==
    IF i > Len(regions) THEN [raised |-> "", results |-> results]
    ELSE LET region == regions[i]
         IN  IF region \notin DOMAIN region_data
             THEN RegionLoop_skip(region_data, regions, threshold_ms, i + 1, results)
             ELSE LET records == region_data[region]
                  IN  IF MissingField(records) # ""
                      THEN [raised |-> MissingField(records), results |-> results]
                      ELSE RegionLoop_skip(region_data, regions, threshold_ms, i + 1,
                               SetItem(results, region,
                                       RegionMetrics(records, threshold_ms)))

\* The loop of lines 91-119.
RECURSIVE RegionLoop(_, _, _, _, _)
RegionLoop(region_data, regions, threshold_ms, i, results) ==
    IF i > Len(regions) THEN [raised |-> "", results |-> results]
    ELSE LET region == regions[i]
         IN  IF region \notin DOMAIN region_data
             THEN RegionLoop(region_data, regions, threshold_ms, i + 1,
                             SetItem(results, region, ZeroMetrics))
             ELSE LET records == region_data[region]
                  IN  IF MissingField(records) # ""
                      THEN [raised |-> MissingField(records), results |-> results]
                      ELSE RegionLoop(region_data, regions, threshold_ms, i + 1,
                               SetItem(results, region,
                                       RegionMetrics(records, threshold_ms)))

\* The response of a handler that returned results (line 124).
JSONResponse(content) == [status |-> 200, content |-> content, error |-> ""]

\* The response the framework gives when the handler raised KeyError(key).
ServerError(key) == [status |-> 500, content |-> NoResults, error |-> key]

\* The handler as a function of the dataset it reads and the request body.
Handle(data, req) ==
    LET grouped == GroupByRegion(data, 1, NoResults)
    IN  IF grouped.raised # "" THEN ServerError(grouped.raised)
        ELSE LET looped == RegionLoop(grouped.region_data, req.regions,
                                      req.threshold_ms, 1, NoResults)
             IN  IF looped.raised # "" THEN ServerError(looped.raised)
                 ELSE JSONResponse(looped.results)

(***************************************************************************)
(* The state machine.                                                      *)
(***************************************************************************)
NoRequest == [regions |-> <<>>, threshold_ms |-> 0]
NoResponse == [status |-> 0, content |-> NoResults, error |-> ""]

\* Line 71, executed when the module is imported.
Load ==
    /\ pc = "boot"
    /\ LET loaded == load_telemetry_data(fs)
       IN  IF loaded.raised
           THEN pc' = "crashed" /\ UNCHANGED telemetry_data
           ELSE pc' = "serving" /\ telemetry_data' = loaded.data
    /\ UNCHANGED <<fs, request, response>>

\* Mutant: the grouping loop consumes telemetry_data (pops each record).
get_region_metrics_consuming(req) ==
    /\ pc = "serving"
    /\ pc' = "responding"
    /\ request' = req
    /\ response' = Handle(telemetry_data, req)
    /\ telemetry_data' = <<>>
    /\ UNCHANGED fs

\* POST /api/latency with body req: lines 75-127, the response built.
get_region_metrics(req) ==
    /\ pc = "serving"
    /\ pc' = "responding"
    /\ request' = req
    /\ response' = Handle(telemetry_data, req)
    /\ UNCHANGED <<fs, telemetry_data>>

\* Line 129: the response is returned and the handler's locals are dropped.
SendResponse ==
    /\ pc = "responding"
    /\ pc' = "serving"
    /\ request' = NoRequest
    /\ response' = NoResponse
    /\ UNCHANGED <<fs, telemetry_data>>

\* The service after start-up from a deployment that ships dataset d.
Init ==
    \E d \in Datasets :
        /\ fs = [f \in FileIds |-> JsonFile(d)]
        /\ pc = "serving"
        /\ telemetry_data = load_telemetry_data(fs).data
        /\ request = NoRequest
        /\ response = NoResponse

Next == SendResponse \/ \E req \in Requests : get_region_metrics(req)

Spec == Init /\ [][Next]_vars

\* Start-up itself: any layout of the candidate files, then the service.
StartupDatasets ==
    { <<>>,
      <<Sample("emea", Int2Rat(100), Int2Rat(99)), Sample("emea", Int2Rat(200), Int2Rat(98))>>,
      <<Sample("apac", Int2Rat(150), Int2Rat(98))>> }

FileStates == {Absent, Corrupt} \cup { JsonFile(d) : d \in StartupDatasets }

InitStartup ==
    /\ fs \in [FileIds -> FileStates]
    /\ pc = "boot"
    /\ telemetry_data = <<>>
    /\ request = NoRequest
    /\ response = NoResponse

NextStartup == Load \/ SendResponse \/ \E req \in Requests : get_region_metrics(req)

SpecStartup == InitStartup /\ [][NextStartup]_vars

(***************************************************************************)
(* Vocabulary of the properties: the dataset as the specification sees it, *)
(* stated without the handler's loops.                                     *)
(***************************************************************************)
Served == pc = "responding"
Returned == Served /\ response.status = 200
Requested == { request.regions[i] : i \in 1..Len(request.regions) }

HasRegion(record) == "region" \in DOMAIN record
PresentRegions ==
    { telemetry_data[k].region :
        k \in { j \in 1..Len(telemetry_data) : HasRegion(telemetry_data[j]) } }
RecordsOf(region) ==
    SelectSeq(telemetry_data, LAMBDA rec : HasRegion(rec) /\ rec.region = region)
LatenciesOf(region) ==
    LET recs == RecordsOf(region) IN [k \in 1..Len(recs) |-> recs[k].latency_ms]
AllWellFormed == \A k \in 1..Len(telemetry_data) : IsWellFormed(telemetry_data[k])

\* A requested region of the dataset whose metrics were returned.
Computed(region) == Returned /\ region \in Requested /\ region \in PresentRegions

\* The k-th smallest element of L (k from 0), by counting.
OrderStatistic(L, k) ==
    CHOOSE v \in { L[i] : i \in 1..Len(L) } :
        /\ Cardinality({ i \in 1..Len(L) : RatLess(L[i], v) }) <= k
        /\ Cardinality({ i \in 1..Len(L) : RatLeq(L[i], v) }) > k

\* The p95 of the specification on a non-empty L: idx = 0.95 * (n - 1).
Interpolated95(L) ==
    LET n == Len(L)
        lower == (95 * (n - 1)) \div 100
        upper == lower + 1
        weight == Rat((95 * (n - 1)) % 100, 100)
    IN  IF upper >= n THEN OrderStatistic(L, lower)
        ELSE RatAdd(RatMul(OrderStatistic(L, lower), RatSub(Int2Rat(1), weight)),
                    RatMul(OrderStatistic(L, upper), weight))

Reordered(L, perm) == [i \in 1..Len(L) |-> L[perm[i]]]

MinOf(L) == CHOOSE v \in { L[i] : i \in 1..Len(L) } : \A i \in 1..Len(L) : RatLeq(v, L[i])
MaxOf(L) == CHOOSE v \in { L[i] : i \in 1..Len(L) } : \A i \in 1..Len(L) : RatLeq(L[i], v)

\* No value the handler rounded lies half way between two representable results.
NoTie ==
    \A region \in RegionNames :
        Computed(region) =>
            LET L == LatenciesOf(region)
                recs == RecordsOf(region)
                U == [k \in 1..Len(recs) |-> RatMul(recs[k].uptime_pct, Rat(1, 100))]
            IN  /\ ~IsTie(mean(L), 2)
                /\ ~IsTie(calculate_percentile(L, Rat(95, 100)), 2)
                /\ ~IsTie(mean(U), 4)

(***************************************************************************)
(* Properties.                                                             *)
(***************************************************************************)

\* C1: for every non-empty latency list L the handler aggregates,
\* calculate_percentile(L, 0.95) is the linear interpolation between the order
\* statistics of L at idx = 0.95 * (n - 1), the returned p95_latency is that
\* value rounded to 2 decimals, and no reordering of L changes the result.
PercentileIsInterpolation ==
    \A region \in RegionNames :
        Computed(region) =>
            LET L == LatenciesOf(region)
                p95 == calculate_percentile(L, Rat(95, 100))
                expected == Interpolated95(L)
            IN  /\ p95 = expected
                /\ response.content[region].p95_latency = round(expected, 2)
                /\ \A perm \in Permutations(1..Len(L)) :
                       calculate_percentile(Reordered(L, perm), Rat(95, 100)) = p95

\* C1 witness: a p95 was returned for a region whose three latencies were not
\* inserted in ascending order and whose p95 lies strictly between two of them.
PercentileIsInterpolationWitness ==
    /\ Computed("emea")
    /\ Len(LatenciesOf("emea")) = 3
    /\ RatLess(LatenciesOf("emea")[2], LatenciesOf("emea")[1])
    /\ RatLess(MinOf(LatenciesOf("emea")), response.content["emea"].p95_latency)
    /\ RatLess(response.content["emea"].p95_latency, MaxOf(LatenciesOf("emea")))

\* C2 as stated: every returned p95_latency lies between min(L) and max(L).
P95WithinMinMax ==
    \A region \in RegionNames :
        Computed(region) =>
            /\ RatLeq(MinOf(LatenciesOf(region)), response.content[region].p95_latency)
            /\ RatLeq(response.content[region].p95_latency, MaxOf(LatenciesOf(region)))

HasAtMostTwoDecimals(x) == 100 % x.den = 0

\* C2 amended: every returned p95_latency lies between min(L) and max(L) each
\* rounded to 2 decimals, hence between min(L) and max(L) themselves when every
\* latency of the region has at most two decimals.
P95WithinRoundedMinMax ==
    \A region \in RegionNames :
        Computed(region) =>
            LET L == LatenciesOf(region)
                p95 == response.content[region].p95_latency
            IN  /\ RatLeq(round(MinOf(L), 2), p95)
                /\ RatLeq(p95, round(MaxOf(L), 2))
                /\ (\A i \in 1..Len(L) : HasAtMostTwoDecimals(L[i]))
                       => RatLeq(MinOf(L), p95) /\ RatLeq(p95, MaxOf(L))

\* C2 witness: a p95 strictly inside (min, max) was returned for a region with
\* a latency of more than two decimals.
P95WithinRoundedMinMaxWitness ==
    /\ Computed("emea")
    /\ \E i \in 1..Len(LatenciesOf("emea")) : ~HasAtMostTwoDecimals(LatenciesOf("emea")[i])
    /\ RatLess(MinOf(LatenciesOf("emea")), response.content["emea"].p95_latency)
    /\ RatLess(response.content["emea"].p95_latency, MaxOf(LatenciesOf("emea")))

\* C3: the returned breaches of a region is the number of its samples whose
\* latency_ms is strictly greater than threshold_ms: all of them when the
\* threshold is below every latency, none when it is at or above every latency.
BreachesCountStrictlyGreater ==
    \A region \in RegionNames :
        Computed(region) =>
            LET L == LatenciesOf(region)
                t == Int2Rat(request.threshold_ms)
                breaches == response.content[region].breaches
            IN  /\ breaches = Cardinality({ i \in 1..Len(L) : RatLess(t, L[i]) })
                /\ (\A i \in 1..Len(L) : RatLess(t, L[i])) => breaches = Len(L)
                /\ (\A i \in 1..Len(L) : RatLeq(L[i], t)) => breaches = 0

\* C3 witness: breaches was returned for a region holding a sample equal to
\* the threshold and a sample above it.
BreachesCountStrictlyGreaterWitness ==
    /\ Computed("apac")
    /\ \E i \in 1..Len(LatenciesOf("apac")) :
           LatenciesOf("apac")[i] = Int2Rat(request.threshold_ms)
    /\ Computed("emea")
    /\ response.content["emea"].breaches = 1
    /\ response.content["apac"].breaches = 0

\* C4: a requested name absent from the dataset is reported with the all-zero
\* metrics and is never the cause of an error, while the known regions of the
\* same request receive their computed metrics; the only error a request can
\* end in is the KeyError of a record lacking a field.
UnknownRegionZeroFilled ==
    Served =>
        /\ response.status = 200 =>
               \A region \in Requested :
                   /\ region \in DOMAIN response.content
                   /\ region \notin PresentRegions
                          => response.content[region] = ZeroMetrics
                   /\ region \in PresentRegions
                          => response.content[region]
                                 = RegionMetrics(RecordsOf(region), request.threshold_ms)
        /\ response.status # 200 =>
               /\ response.status = 500
               /\ response.error \in {"region", "latency_ms", "uptime_pct"}
               /\ \E k \in 1..Len(telemetry_data) :
                      response.error \notin DOMAIN telemetry_data[k]

\* C4 witness: one request named an unknown region and a known one and got
\* zeros for the former and non-zero metrics for the latter.
UnknownRegionZeroFilledWitness ==
    /\ Returned
    /\ request.regions = <<"unknown_region", "emea">>
    /\ response.content["unknown_region"] = ZeroMetrics
    /\ response.content["emea"] # ZeroMetrics

\* C5: no request writes telemetry_data: while the service runs the dataset is
\* the value loaded at start-up, and the response to a request is the one the
\* same request gets on that start-up value, whatever was served before it.
DatasetNeverWritten ==
    pc \in {"serving", "responding"} =>
        /\ telemetry_data = load_telemetry_data(fs).data
        /\ Served => response = Handle(load_telemetry_data(fs).data, request)

\* C5 witness: a request over a dataset of MaxRecords records has been
\* served with metrics and the dataset still holds every loaded record.
DatasetNeverWrittenWitness ==
    /\ Returned
    /\ Len(telemetry_data) = MaxRecords
    /\ \E region \in Requested : response.content[region] # ZeroMetrics

\* C6: a malformed record is skipped, or the load failed as a whole (leaving
\* no malformed record in the dataset); no request aborts.
MalformedRecordSkippedOrLoadFails ==
    Served =>
        /\ response.status # 500
        /\ \/ AllWellFormed
           \/ response = Handle(SelectSeq(telemetry_data, IsWellFormed), request)

\* C7: on the dataset of exactly the two emea samples (100, 99.0) and
\* (200, 98.0), the request regions = ["emea"], threshold_ms = 150 returns
\* avg_latency 150.0, p95_latency 195.0, avg_uptime 0.985 and breaches 1.
ScenarioData ==
    <<Sample("emea", Int2Rat(100), Int2Rat(99)), Sample("emea", Int2Rat(200), Int2Rat(98))>>
ScenarioRequest == [regions |-> <<"emea">>, threshold_ms |-> 150]
ScenarioCase == Served /\ telemetry_data = ScenarioData /\ request = ScenarioRequest

EmeaScenario ==
    ScenarioCase =>
        /\ response.status = 200
        /\ response.content =
               [region \in {"emea"} |->
                   [avg_latency |-> Int2Rat(150), p95_latency |-> Int2Rat(195),
                    avg_uptime |-> Rat(985, 1000), breaches |-> 1]]

\* C7 witness: the scenario's request was served on the scenario's dataset.
EmeaScenarioWitness == ScenarioCase /\ "emea" \in DOMAIN response.content

\* C8: for a region with exactly one sample, of latency x, the returned
\* p95_latency and avg_latency are equal, both x rounded to 2 decimals.
SingleSampleP95IsAvg ==
    \A region \in RegionNames :
        (Computed(region) /\ Len(RecordsOf(region)) = 1) =>
            /\ response.content[region].p95_latency = response.content[region].avg_latency
            /\ response.content[region].avg_latency = round(LatenciesOf(region)[1], 2)

\* C8 witness: metrics were returned for a region with exactly one sample,
\* whose latency has more than two decimals.
SingleSampleP95IsAvgWitness ==
    /\ Computed("emea")
    /\ Len(RecordsOf("emea")) = 1
    /\ ~HasAtMostTwoDecimals(LatenciesOf("emea")[1])
    /\ response.content["emea"].avg_latency # LatenciesOf("emea")[1]

\* The file the loader reads: the first candidate that exists.
FirstExisting ==
    IF fs["cwd"].exists THEN "cwd"
    ELSE IF fs["var_task"].exists THEN "var_task"
    ELSE IF fs["parent"].exists THEN "parent"
    ELSE "none"

\* C9: load_telemetry_data never raises; it returns the parsed contents of the
\* first candidate path that exists, and the empty list when none exists or
\* that file does not parse; over the empty dataset every POST succeeds with
\* all-zero metrics for each requested region.
LoadNeverRaises ==
    /\ pc # "crashed"
    /\ pc \in {"serving", "responding"} =>
           telemetry_data =
               IF FirstExisting # "none" /\ fs[FirstExisting].parses
               THEN fs[FirstExisting].data
               ELSE <<>>
    /\ (Served /\ telemetry_data = <<>>) =>
           /\ response.status = 200
           /\ DOMAIN response.content = Requested
           /\ \A region \in Requested : response.content[region] = ZeroMetrics

\* C9 witness: the first existing candidate does not parse while a later one
\* holds samples, the dataset is empty, and a request for two regions has been
\* answered with zeros.
LoadNeverRaisesWitness ==
    /\ Returned
    /\ ~fs["cwd"].exists
    /\ fs["var_task"] = Corrupt
    /\ fs["parent"].data # <<>>
    /\ telemetry_data = <<>>
    /\ request.regions = <<"emea", "apac">>
    /\ response.content["emea"] = ZeroMetrics

\* C10: on a well-formed dataset the keys of the result are exactly the
\* distinct requested names (none for an empty list, one entry for a repeated
\* name), each entry equal to the one obtained by requesting that name alone.
ResultKeysAreRequestedNames ==
    (Served /\ AllWellFormed) =>
        /\ response.status = 200
        /\ DOMAIN response.content = Requested
        /\ \A region \in Requested :
               response.content[region] =
                   Handle(telemetry_data,
                          [regions |-> <<region>>,
                           threshold_ms |-> request.threshold_ms]).content[region]

\* C10 witness: a request repeating a known name was answered by a single
\* entry although the dataset holds another region too.
ResultKeysAreRequestedNamesWitness ==
    /\ Returned
    /\ AllWellFormed
    /\ request.regions = <<"emea", "emea">>
    /\ PresentRegions = {"emea", "apac"}
    /\ DOMAIN response.content = {"emea"}

====
